---- MODULE Spec2Model ----
(***************************************************************************)
(* Model of the text-scanning and issue-aggregation engine of src/app.py   *)
(* (Translation QA for Traditional Chinese): check_extra_spaces,           *)
(* check_typos, check_duplicate_footnotes, check_terminology_inconsistency *)
(* and context_df, run in the order of the main execution.                 *)
(*                                                                         *)
(* A Python str is a sequence of Unicode code points (naturals).  Offsets  *)
(* are Python's, 0-based: At(t, i) is t[i].  An issue tuple is a TLA+      *)
(* tuple with the same components as the Python tuple; a token is a str,   *)
(* so a one-character token is a sequence of length 1.                     *)
(***************************************************************************)
EXTENDS Integers, Sequences, FiniteSets, TLC

\* ------------------------------------------------------------------ bounds
\* longest text, in characters, of the character-built input families
MaxLen == 5
\* longest text, in pieces, of the footnote input family
MaxPieces == 3
\* longest text, in characters, of the terminology input family
MaxTermLen == 3
\* most rows of a glossary
MaxRows == 2

\* ------------------------------------------------------- strings (Python)
At(t, i) == t[i + 1]

\* t[s:e] for 0 <= s, 0 <= e (an empty str when s >= e)
Slice(t, s, e) ==
  LET hi == IF e > Len(t) THEN Len(t) ELSE e
  IN IF s >= hi THEN <<>> ELSE SubSeq(t, s + 1, hi)

StrUpTo(A, n) == UNION {[1..k -> A] : k \in 0..n}

RECURSIVE Concat(_)
Concat(ss) == IF ss = <<>> THEN <<>> ELSE Head(ss) \o Concat(Tail(ss))

\* [U+4E00-U+9FFF]
IsCJK(c) == c >= 19968 /\ c <= 40959

\* [ \t]
HalfSpace == {32, 9}

\* U+3000
FullSpace == {12288}

\* the class [,\.;:!\?\)\(\[\]\{\}\"'] built from ascii_punct
AsciiPunct == {44, 46, 59, 58, 33, 63, 41, 40, 91, 93, 123, 125, 34, 39}

\* the class of rep: U+FF0C U+3002 U+FF1B U+FF1A U+FF1F U+FF01 U+3001
CJKPunct == {65292, 12290, 65307, 65306, 65311, 65281, 12289}

\* \d on a str pattern: decimal digits; the inputs of the model use the ASCII
\* digits 0-9 only (the full-width digits U+FF10-U+FF19 match \d as well)
Digits == (48..57) \cup (65296..65305)

\* the index of the first character at or after j that is not in S
RECURSIVE RunEnd(_, _, _)
RunEnd(t, j, S) ==
  IF j < Len(t) /\ At(t, j) \in S THEN RunEnd(t, j + 1, S) ELSE j

\* pairs: the closer of each opener (fullwidth parenthesis, double angle,
\* corner, white corner, lenticular, then ( [ {)
pairs ==
  (65288 :> 65289) @@ (12298 :> 12299) @@ (12300 :> 12301) @@
  (12302 :> 12303) @@ (12304 :> 12305) @@ (40 :> 41) @@ (91 :> 93) @@
  (123 :> 125)

opens == DOMAIN pairs

closes == {pairs[o] : o \in opens}

\* the zero-width / BOM characters, in the order of the list the code loops over
zwChars == <<8203, 8204, 8205, 65279>>

\* supmap: superscript digit -> value (U+2070, U+00B9, U+00B2, U+00B3,
\* U+2074..U+2079)
supmap ==
  (8304 :> 0) @@ (185 :> 1) @@ (178 :> 2) @@ (179 :> 3) @@ (8308 :> 4) @@
  (8309 :> 5) @@ (8310 :> 6) @@ (8311 :> 7) @@ (8312 :> 8) @@ (8313 :> 9)

\* str(val) for val >= 0: the decimal digits, most significant first
RECURSIVE str(_)
str(val) ==
  IF val < 10 THEN <<48 + val>> ELSE Append(str(val \div 10), 48 + (val % 10))

\* ------------------------------------------------------ regular expressions
\* Each pattern of the code is a matcher: the end offset (exclusive) of the
\* match of the pattern that starts at offset p, or -1 when there is none.

\* ([CJK])S+([CJK]): the run S+ is greedy and a CJK character is not in S, so
\* only the maximal run can be followed by the closing ideograph
GapMatch(t, p, S) ==
  IF p < Len(t) /\ IsCJK(At(t, p))
  THEN LET e == RunEnd(t, p + 1, S)
       IN IF e > p + 1 /\ e < Len(t) /\ IsCJK(At(t, e)) THEN e + 1 ELSE -1
  ELSE -1

\* ([CJK])([ascii_punct])([CJK])
PunctMatch(t, p) ==
  IF p + 2 < Len(t) /\ IsCJK(At(t, p)) /\ At(t, p + 1) \in AsciiPunct
     /\ IsCJK(At(t, p + 2))
  THEN p + 3 ELSE -1

\* ([...])\1+
RepMatch(t, p) ==
  IF p < Len(t) /\ At(t, p) \in CJKPunct
  THEN LET e == RunEnd(t, p + 1, {At(t, p)})
       IN IF e > p + 1 THEN e ELSE -1
  ELSE -1

\* one alternative of the footnote pattern: open, \d{1,3}, close
BracketNumMatch(t, p, open, close) ==
  IF p < Len(t) /\ At(t, p) = open
  THEN LET e == RunEnd(t, p + 1, Digits)
       IN IF e > p + 1 /\ e <= p + 4 /\ e < Len(t) /\ At(t, e) = close
          THEN e + 1 ELSE -1
  ELSE -1

\* \((\d{1,3})\)|U+FF08(\d{1,3})U+FF09|\[(\d{1,3})\]
FootMatch(t, p) ==
  IF BracketNumMatch(t, p, 40, 41) # -1 THEN BracketNumMatch(t, p, 40, 41)
  ELSE IF BracketNumMatch(t, p, 65288, 65289) # -1
       THEN BracketNumMatch(t, p, 65288, 65289)
       ELSE BracketNumMatch(t, p, 91, 93)

\* a one-character literal pattern
CharMatch(t, p, c) == IF p < Len(t) /\ At(t, p) = c THEN p + 1 ELSE -1

\* a pattern is <<name>>, or <<"literal", c>> for the one-character pattern c
MatchAt(pat, t, p) ==
  CASE pat[1] = "space" -> GapMatch(t, p, HalfSpace)
    [] pat[1] = "fw" -> GapMatch(t, p, FullSpace)
    [] pat[1] = "punct" -> PunctMatch(t, p)
    [] pat[1] = "rep" -> RepMatch(t, p)
    [] pat[1] = "foot" -> FootMatch(t, p)
    [] pat[1] = "literal" -> CharMatch(t, p, pat[2])

\* pattern.finditer(text) from offset pos: the leftmost match, then the scan
\* resumes at the end of that match (every pattern here matches at least one
\* character), so no two matches overlap
RECURSIVE finditer(_, _, _)
finditer(pat, t, pos) ==
  IF pos >= Len(t) THEN <<>>
  ELSE LET e == MatchAt(pat, t, pos)
       IN IF e = -1 THEN finditer(pat, t, pos + 1)
          ELSE <<[start |-> pos, end |-> e]>> \o finditer(pat, t, e)

\* m.group(0)
group0(t, m) == Slice(t, m.start, m.end)

\* ------------------------------------------------------- check_extra_spaces
\* (a variant that gives the end offset of a match for its length)
SpanFindingsEndForLength(pat, t) ==
  LET ms == finditer(pat, t, 0)
  IN [k \in 1..Len(ms) |-> <<ms[k].start, ms[k].end, group0(t, ms[k])>>]

\* (m.start(0), len(m.group(0)), m.group(0)) of every match of one pattern
SpanFindings(pat, t) ==
  LET ms == finditer(pat, t, 0)
  IN [k \in 1..Len(ms) |->
        <<ms[k].start, Len(group0(t, ms[k])), group0(t, ms[k])>>]

check_extra_spaces(t) == SpanFindings(<<"space">>, t) \o SpanFindings(<<"fw">>, t)

\* -------------------------------------------------------------- check_typos
\* the issue of one mixed-script match: group 2, the punctuation character
PunctIssue(t, m) ==
  <<m.start + 1, 1, <<At(t, m.start + 1)>>,
    "ASCII punctuation between CJK characters">>

AsciiPunctIssues(t) ==
  LET ms == finditer(<<"punct">>, t, 0)
  IN [k \in 1..Len(ms) |-> PunctIssue(t, ms[k])]

RepeatedIssues(t) ==
  LET ms == finditer(<<"rep">>, t, 0)
  IN [k \in 1..Len(ms) |->
        <<ms[k].start, Len(group0(t, ms[k])), group0(t, ms[k]),
          "Repeated punctuation">>]

\* (a variant that lets any closer close the opener on top)
IsUnexpectedCloseEmptyOnly(stk, ch) == stk = <<>>

\* not stack or pairs.get(stack[-1][0]) != ch
IsUnexpectedClose(stk, ch) ==
  IF stk = <<>> THEN TRUE ELSE pairs[stk[Len(stk)][1]] # ch

UnexpectedIssue(pos, ch) == <<pos, 1, <<ch>>, "Unexpected closing bracket/quote">>

\* (a variant that reports every opener left open at the end of the text)
UnclosedIssueAtEnd(t, ch, pos) ==
  <<Len(t), 1, <<ch>>, "Unclosed opening bracket/quote">>

\* the issue of one (ch, pos) left on the stack
UnclosedIssue(t, ch, pos) == <<pos, 1, <<ch>>, "Unclosed opening bracket/quote">>

\* (a variant that empties the stack from its top)
UnclosedIssuesFromTop(t, stk) ==
  [k \in 1..Len(stk) |->
     UnclosedIssue(t, stk[Len(stk) + 1 - k][1], stk[Len(stk) + 1 - k][2])]

UnclosedIssues(t, stk) ==
  [k \in 1..Len(stk) |-> UnclosedIssue(t, stk[k][1], stk[k][2])]

\* for m in re.finditer(zw, text) for one zw
ZeroWidthOf(t, zw) ==
  LET ms == finditer(<<"literal", zw>>, t, 0)
  IN [k \in 1..Len(ms) |-> <<ms[k].start, 1, <<zw>>, "Zero-width/BOM character">>]

\* for zw in [...]: the matches of each character in turn
ZeroWidthIssues(t) ==
  Concat([k \in 1..Len(zwChars) |-> ZeroWidthOf(t, zwChars[k])])

\* ------------------------------------------------ check_duplicate_footnotes
\* m.group(1) or m.group(2) or m.group(3): the digits between the brackets
FootNum(t, m) == Slice(t, m.start + 1, m.end - 1)

\* the key of the superscript run t[i:j]: str(val), val folded left to right
RECURSIVE SupVal(_, _, _, _)
SupVal(t, i, j, val) ==
  IF i >= j THEN val ELSE SupVal(t, i + 1, j, val * 10 + supmap[At(t, i)])

SupKey(t, i, j) == str(SupVal(t, i, j, 0))

\* (a variant that reports a number only the first time it is seen again)
RecordOnce(fd, key, pos, length) ==
  IF key \in DOMAIN fd.found
  THEN [found |-> fd.found,
        duplicates |->
          IF \E k \in 1..Len(fd.duplicates) : fd.duplicates[k][3] = key
          THEN fd.duplicates
          ELSE Append(fd.duplicates, <<pos, length, key>>)]
  ELSE [found |-> fd.found @@ (key :> pos), duplicates |-> fd.duplicates]

\* one token against the first-seen table: [found, duplicates] afterwards
Record(fd, key, pos, length) ==
  IF key \in DOMAIN fd.found
  THEN [found |-> fd.found,
        duplicates |-> Append(fd.duplicates, <<pos, length, key>>)]
  ELSE [found |-> fd.found @@ (key :> pos), duplicates |-> fd.duplicates]

\* for m in pattern.finditer(text): the bracket-notation pass
RECURSIVE PatternPass(_, _, _, _)
PatternPass(t, ms, k, fd) ==
  IF k > Len(ms) THEN fd
  ELSE PatternPass(t, ms, k + 1,
         Record(fd, FootNum(t, ms[k]), ms[k].start, Len(group0(t, ms[k]))))

\* --------------------------------------- check_terminology_inconsistency
\* the characters str.strip() removes
Whitespace ==
  {9, 10, 11, 12, 13, 28, 29, 30, 31, 32, 133, 160, 5760, 8232, 8233, 8239,
   8287, 12288} \cup (8192..8202)

RECURSIVE LStrip(_)
LStrip(s) == IF s # <<>> /\ Head(s) \in Whitespace THEN LStrip(Tail(s)) ELSE s

RECURSIVE RStrip(_)
RStrip(s) ==
  IF s # <<>> /\ s[Len(s)] \in Whitespace
  THEN RStrip(SubSeq(s, 1, Len(s) - 1)) ELSE s

strip(s) == RStrip(LStrip(s))

\* s.split(sep) for a one-character sep: always at least one field
RECURSIVE split(_, _)
split(s, sep) ==
  IF s = <<>> THEN << <<>> >>
  ELSE LET rest == split(Tail(s), sep)
       IN IF Head(s) = sep THEN << <<>> >> \o rest
          ELSE << <<Head(s)>> \o Head(rest) >> \o Tail(rest)

\* target.count(term) for a non-empty term, from offset pos: a match is counted
\* and the scan resumes after it
RECURSIVE count(_, _, _)
count(t, term, pos) ==
  IF pos + Len(term) > Len(t) THEN 0
  ELSE IF Slice(t, pos, pos + Len(term)) = term
       THEN 1 + count(t, term, pos + Len(term))
       ELSE count(t, term, pos + 1)

\* [v.strip() for v in variants_str.split("|") if v.strip()]
variantsOf(variants_str) ==
  SelectSeq([k \in 1..Len(split(variants_str, 124)) |->
               strip(split(variants_str, 124)[k])],
            LAMBDA v : v # <<>>)

\* the keys of the dict used, in insertion order: a key set again keeps its place
RECURSIVE usedKeys(_, _)
usedKeys(terms, acc) ==
  IF terms = <<>> THEN acc
  ELSE usedKeys(Tail(terms),
         IF Head(terms) = <<>> \/ \E k \in 1..Len(acc) : acc[k] = Head(terms)
         THEN acc ELSE Append(acc, Head(terms)))

\* (a variant that keeps the terms that do not occur)
usedTermsUnfiltered(target, terms) == usedKeys(terms, <<>>)

\* used_terms: the keys of used with a count > 0, in order
usedTerms(target, terms) ==
  SelectSeq(usedKeys(terms, <<>>), LAMBDA k : count(target, k, 0) > 0)

\* ", ".join(f"{k} ({v})" for k, v in used_terms.items())
RECURSIVE foundText(_, _)
foundText(target, ks) ==
  IF ks = <<>> THEN <<>>
  ELSE Head(ks) \o <<32, 40>> \o str(count(target, Head(ks), 0)) \o <<41>>
       \o (IF Len(ks) > 1 THEN <<44, 32>> ELSE <<>>)
       \o foundText(target, Tail(ks))

\* --------------------------------------------------------------- context_df
pad == 32

\* text[s:e].replace("\n", " ")
context_snippet(t, start, length) ==
  LET s == IF start - pad > 0 THEN start - pad ELSE 0
      e == IF start + length + pad > Len(t) THEN Len(t) ELSE start + length + pad
      cut == Slice(t, s, e)
  IN [k \in 1..Len(cut) |-> IF cut[k] = 10 THEN 32 ELSE cut[k]]

\* the row of one tuple: a 3-tuple has no note, and "note or token" is the detail
ContextRow(label, t, tup) ==
  LET note == IF Len(tup) = 3 THEN "" ELSE tup[4]
  IN [issue |-> label,
      detail |-> IF note # "" THEN note ELSE tup[3],
      start |-> tup[1],
      end |-> tup[1] + tup[2],
      context |-> context_snippet(t, tup[1], tup[2])]

\* ------------------------------------------------------------------- inputs
\* U+4E2D, space, U+3000, x
SpaceTexts == StrUpTo({20013, 32, 12288, 120}, MaxLen)

\* U+4E2D, comma, )
PunctTexts == StrUpTo({20013, 44, 41}, MaxLen)

\* U+FF08, U+FF09, (, )
BracketTexts == StrUpTo({65288, 65289, 40, 41}, MaxLen)

\* U+3002, U+FF0C, U+200B, U+200C
MarkTexts == StrUpTo({12290, 65292, 8203, 8204}, MaxLen)

\* (1)  U+FF08 01 U+FF09  [10]  superscript 1  superscript 0  x
FootPieces ==
  {<<40, 49, 41>>, <<65288, 48, 49, 65289>>, <<91, 49, 48, 93>>, <<185>>,
   <<8304>>, <<120>>}

FootTexts == {Concat(ps) : ps \in StrUpTo(FootPieces, MaxPieces)}

\* a, b
TermTexts == StrUpTo({97, 98}, MaxTermLen)

\* glossary rows (zh_pref, zh_variants):
\*   " a" / "b"      "" / "a|b|a"      "" / " | "
\*   "a" / "a"       "aa" / "|b "      "b" / ""
GlossaryRows ==
  {[zh_pref |-> <<32, 97>>, zh_variants |-> <<98>>],
   [zh_pref |-> <<>>, zh_variants |-> <<97, 124, 98, 124, 97>>],
   [zh_pref |-> <<>>, zh_variants |-> <<32, 124, 32>>],
   [zh_pref |-> <<97>>, zh_variants |-> <<97>>],
   [zh_pref |-> <<97, 97>>, zh_variants |-> <<124, 98, 32>>],
   [zh_pref |-> <<98>>, zh_variants |-> <<>>]}

Glossaries == StrUpTo(GlossaryRows, MaxRows)

\* the target text and the glossary of one run
Inputs ==
  {[text |-> t, glossary |-> <<>>] :
     t \in SpaceTexts \cup PunctTexts \cup BracketTexts \cup MarkTexts
           \cup FootTexts}
  \cup {[text |-> t, glossary |-> g] : t \in TermTexts, g \in Glossaries}

\* -------------------------------------------------------------------- state
VARIABLES
  target_text,      \* the target document
  glossary_df,      \* the rows of the glossary, in order
  pc,               \* the place of the run
  i,                \* the index of the loop the run is in
  spaces,           \* check_extra_spaces: its findings
  typos,            \* check_typos: issues
  stack,            \* check_typos: stack of (ch, pos)
  found,            \* check_duplicate_footnotes: first-seen table
  duplicates,       \* check_duplicate_footnotes: duplicates
  inconsistencies,  \* check_terminology_inconsistency: its findings
  results,          \* the summary counts
  df_spaces,        \* context_df("Extra space", ...): rows
  df_typos,         \* context_df("Typographical", ...): rows
  df_foot           \* context_df("Duplicated footnote", ...): rows

vars ==
  <<target_text, glossary_df, pc, i, spaces, typos, stack, found, duplicates,
    inconsistencies, results, df_spaces, df_typos, df_foot>>

NoResults ==
  [ExtraSpaces |-> 0, TypographicalErrors |-> 0, DuplicatedFootnotes |-> 0,
   TerminologyInconsistencies |-> 0]

Init ==
  /\ \E inp \in Inputs : target_text = inp.text /\ glossary_df = inp.glossary
  /\ pc = "check_extra_spaces"
  /\ i = 0
  /\ spaces = <<>>
  /\ typos = <<>>
  /\ stack = <<>>
  /\ found = <<>>
  /\ duplicates = <<>>
  /\ inconsistencies = <<>>
  /\ results = NoResults
  /\ df_spaces = <<>>
  /\ df_typos = <<>>
  /\ df_foot = <<>>

\* ------------------------------------------------------------------ actions
\* spaces = check_extra_spaces(target_text)
CheckExtraSpaces ==
  /\ pc = "check_extra_spaces"
  /\ spaces' = check_extra_spaces(target_text)
  /\ pc' = "typos_ascii_punct"
  /\ UNCHANGED <<target_text, glossary_df, i, typos, stack, found, duplicates,
                 inconsistencies, results, df_spaces, df_typos, df_foot>>

\* check_typos: the mixed-script scan
TyposAsciiPunct ==
  /\ pc = "typos_ascii_punct"
  /\ typos' = typos \o AsciiPunctIssues(target_text)
  /\ pc' = "typos_repeated"
  /\ UNCHANGED <<target_text, glossary_df, i, spaces, stack, found, duplicates,
                 inconsistencies, results, df_spaces, df_typos, df_foot>>

\* check_typos: the repeated-punctuation scan
TyposRepeated ==
  /\ pc = "typos_repeated"
  /\ typos' = typos \o RepeatedIssues(target_text)
  /\ pc' = "typos_brackets"
  /\ i' = 0
  /\ UNCHANGED <<target_text, glossary_df, spaces, stack, found, duplicates,
                 inconsistencies, results, df_spaces, df_typos, df_foot>>

\* check_typos: for i, ch in enumerate(text), ch an opener
BracketPush ==
  /\ pc = "typos_brackets"
  /\ i < Len(target_text)
  /\ At(target_text, i) \in opens
  /\ stack' = Append(stack, <<At(target_text, i), i>>)
  /\ i' = i + 1
  /\ UNCHANGED <<target_text, glossary_df, pc, spaces, typos, found, duplicates,
                 inconsistencies, results, df_spaces, df_typos, df_foot>>

\* ch a closer that the top of the stack does not open
BracketUnexpected ==
  /\ pc = "typos_brackets"
  /\ i < Len(target_text)
  /\ At(target_text, i) \in closes
  /\ IsUnexpectedClose(stack, At(target_text, i))
  /\ typos' = Append(typos, UnexpectedIssue(i, At(target_text, i)))
  /\ i' = i + 1
  /\ UNCHANGED <<target_text, glossary_df, pc, spaces, stack, found, duplicates,
                 inconsistencies, results, df_spaces, df_typos, df_foot>>

\* ch the closer of the top of the stack
BracketPop ==
  /\ pc = "typos_brackets"
  /\ i < Len(target_text)
  /\ At(target_text, i) \in closes
  /\ ~IsUnexpectedClose(stack, At(target_text, i))
  /\ stack' = SubSeq(stack, 1, Len(stack) - 1)
  /\ i' = i + 1
  /\ UNCHANGED <<target_text, glossary_df, pc, spaces, typos, found, duplicates,
                 inconsistencies, results, df_spaces, df_typos, df_foot>>

\* ch neither an opener nor a closer
BracketOther ==
  /\ pc = "typos_brackets"
  /\ i < Len(target_text)
  /\ At(target_text, i) \notin opens \cup closes
  /\ i' = i + 1
  /\ UNCHANGED <<target_text, glossary_df, pc, spaces, typos, stack, found,
                 duplicates, inconsistencies, results, df_spaces, df_typos,
                 df_foot>>

\* after the scan: for ch, pos in stack
BracketUnclosed ==
  /\ pc = "typos_brackets"
  /\ i = Len(target_text)
  /\ typos' = typos \o UnclosedIssues(target_text, stack)
  /\ pc' = "typos_zero_width"
  /\ UNCHANGED <<target_text, glossary_df, i, spaces, stack, found, duplicates,
                 inconsistencies, results, df_spaces, df_typos, df_foot>>

\* check_typos: the zero-width / BOM scan, and the return
TyposZeroWidth ==
  /\ pc = "typos_zero_width"
  /\ typos' = typos \o ZeroWidthIssues(target_text)
  /\ pc' = "footnotes_pattern"
  /\ UNCHANGED <<target_text, glossary_df, i, spaces, stack, found, duplicates,
                 inconsistencies, results, df_spaces, df_typos, df_foot>>

\* check_duplicate_footnotes: the bracket-notation pass
FootnotesPattern ==
  /\ pc = "footnotes_pattern"
  /\ LET fd == PatternPass(target_text, finditer(<<"foot">>, target_text, 0), 1,
                           [found |-> <<>>, duplicates |-> <<>>])
     IN found' = fd.found /\ duplicates' = fd.duplicates
  /\ pc' = "footnotes_superscript"
  /\ i' = 0
  /\ UNCHANGED <<target_text, glossary_df, spaces, typos, stack,
                 inconsistencies, results, df_spaces, df_typos, df_foot>>

\* the superscript pass: text[i] in supmap, the run text[i:j]
SuperscriptRun ==
  /\ pc = "footnotes_superscript"
  /\ i < Len(target_text)
  /\ At(target_text, i) \in DOMAIN supmap
  /\ LET j == RunEnd(target_text, i, DOMAIN supmap)
         fd == Record([found |-> found, duplicates |-> duplicates],
                      SupKey(target_text, i, j), i, j - i)
     IN found' = fd.found /\ duplicates' = fd.duplicates /\ i' = j
  /\ UNCHANGED <<target_text, glossary_df, pc, spaces, typos, stack,
                 inconsistencies, results, df_spaces, df_typos, df_foot>>

\* the superscript pass: any other character
SuperscriptOther ==
  /\ pc = "footnotes_superscript"
  /\ i < Len(target_text)
  /\ At(target_text, i) \notin DOMAIN supmap
  /\ i' = i + 1
  /\ UNCHANGED <<target_text, glossary_df, pc, spaces, typos, stack, found,
                 duplicates, inconsistencies, results, df_spaces, df_typos,
                 df_foot>>

\* the end of the superscript pass: return duplicates
FootnotesReturn ==
  /\ pc = "footnotes_superscript"
  /\ i >= Len(target_text)
  /\ pc' = "terminology"
  /\ i' = 0
  /\ UNCHANGED <<target_text, glossary_df, spaces, typos, stack, found,
                 duplicates, inconsistencies, results, df_spaces, df_typos,
                 df_foot>>

\* [pref] + variants of one row
rowTerms(row) == <<strip(row.zh_pref)>> \o variantsOf(strip(row.zh_variants))

\* if not pref and not variants
rowIsBlank(row) ==
  strip(row.zh_pref) = <<>> /\ variantsOf(strip(row.zh_variants)) = <<>>

\* the finding of one row, when len(used_terms) > 1
Finding(target, row) ==
  [preferred |-> strip(row.zh_pref),
   found |-> foundText(target, usedTerms(target, rowTerms(row)))]

\* if glossary_df.empty: return inconsistencies
TerminologyEmpty ==
  /\ pc = "terminology"
  /\ glossary_df = <<>>
  /\ pc' = "results"
  /\ UNCHANGED <<target_text, glossary_df, i, spaces, typos, stack, found,
                 duplicates, inconsistencies, results, df_spaces, df_typos,
                 df_foot>>

\* a row with no preferred term and no variant: continue
TerminologyBlankRow ==
  /\ pc = "terminology"
  /\ i < Len(glossary_df)
  /\ rowIsBlank(glossary_df[i + 1])
  /\ i' = i + 1
  /\ UNCHANGED <<target_text, glossary_df, pc, spaces, typos, stack, found,
                 duplicates, inconsistencies, results, df_spaces, df_typos,
                 df_foot>>

\* any other row: count its terms, and append a finding when more than one is used
TerminologyRow ==
  /\ pc = "terminology"
  /\ i < Len(glossary_df)
  /\ ~rowIsBlank(glossary_df[i + 1])
  /\ inconsistencies' =
       IF Len(usedTerms(target_text, rowTerms(glossary_df[i + 1]))) > 1
       THEN Append(inconsistencies, Finding(target_text, glossary_df[i + 1]))
       ELSE inconsistencies
  /\ i' = i + 1
  /\ UNCHANGED <<target_text, glossary_df, pc, spaces, typos, stack, found,
                 duplicates, results, df_spaces, df_typos, df_foot>>

\* after the last row: return inconsistencies
TerminologyReturn ==
  /\ pc = "terminology"
  /\ glossary_df # <<>>
  /\ i = Len(glossary_df)
  /\ pc' = "results"
  /\ UNCHANGED <<target_text, glossary_df, i, spaces, typos, stack, found,
                 duplicates, inconsistencies, results, df_spaces, df_typos,
                 df_foot>>

\* results = {...}: the summary counts
Results ==
  /\ pc = "results"
  /\ results' =
       [ExtraSpaces |-> Len(spaces), TypographicalErrors |-> Len(typos),
        DuplicatedFootnotes |-> Len(duplicates),
        TerminologyInconsistencies |-> Len(inconsistencies)]
  /\ pc' = "df_spaces"
  /\ i' = 0
  /\ UNCHANGED <<target_text, glossary_df, spaces, typos, stack, found,
                 duplicates, inconsistencies, df_spaces, df_typos, df_foot>>

\* (a variant that puts each new row in front of the rows built so far)
DfSpacesRowInFront ==
  /\ pc = "df_spaces"
  /\ i < Len(spaces)
  /\ df_spaces' = <<ContextRow("Extra space", target_text, spaces[i + 1])>> \o df_spaces
  /\ i' = i + 1
  /\ UNCHANGED <<target_text, glossary_df, pc, spaces, typos, stack, found,
                 duplicates, inconsistencies, results, df_typos, df_foot>>

\* context_df("Extra space", target_text, spaces): one tuple of the loop
DfSpacesRow ==
  /\ pc = "df_spaces"
  /\ i < Len(spaces)
  /\ df_spaces' = Append(df_spaces, ContextRow("Extra space", target_text, spaces[i + 1]))
  /\ i' = i + 1
  /\ UNCHANGED <<target_text, glossary_df, pc, spaces, typos, stack, found,
                 duplicates, inconsistencies, results, df_typos, df_foot>>

DfSpacesReturn ==
  /\ pc = "df_spaces"
  /\ i = Len(spaces)
  /\ pc' = "df_typos"
  /\ i' = 0
  /\ UNCHANGED <<target_text, glossary_df, spaces, typos, stack, found,
                 duplicates, inconsistencies, results, df_spaces, df_typos,
                 df_foot>>

\* context_df("Typographical", target_text, typos): one tuple of the loop
DfTyposRow ==
  /\ pc = "df_typos"
  /\ i < Len(typos)
  /\ df_typos' = Append(df_typos, ContextRow("Typographical", target_text, typos[i + 1]))
  /\ i' = i + 1
  /\ UNCHANGED <<target_text, glossary_df, pc, spaces, typos, stack, found,
                 duplicates, inconsistencies, results, df_spaces, df_foot>>

DfTyposReturn ==
  /\ pc = "df_typos"
  /\ i = Len(typos)
  /\ pc' = "df_foot"
  /\ i' = 0
  /\ UNCHANGED <<target_text, glossary_df, spaces, typos, stack, found,
                 duplicates, inconsistencies, results, df_spaces, df_typos,
                 df_foot>>

\* context_df("Duplicated footnote", target_text, duplicates): one tuple
DfFootRow ==
  /\ pc = "df_foot"
  /\ i < Len(duplicates)
  /\ df_foot' = Append(df_foot, ContextRow("Duplicated footnote", target_text, duplicates[i + 1]))
  /\ i' = i + 1
  /\ UNCHANGED <<target_text, glossary_df, pc, spaces, typos, stack, found,
                 duplicates, inconsistencies, results, df_spaces, df_typos>>

DfFootReturn ==
  /\ pc = "df_foot"
  /\ i = Len(duplicates)
  /\ pc' = "done"
  /\ UNCHANGED <<target_text, glossary_df, i, spaces, typos, stack, found,
                 duplicates, inconsistencies, results, df_spaces, df_typos,
                 df_foot>>

Next ==
  \/ CheckExtraSpaces
  \/ TyposAsciiPunct
  \/ TyposRepeated
  \/ BracketPush
  \/ BracketUnexpected
  \/ BracketPop
  \/ BracketOther
  \/ BracketUnclosed
  \/ TyposZeroWidth
  \/ FootnotesPattern
  \/ SuperscriptRun
  \/ SuperscriptOther
  \/ FootnotesReturn
  \/ TerminologyEmpty
  \/ TerminologyBlankRow
  \/ TerminologyRow
  \/ TerminologyReturn
  \/ Results
  \/ DfSpacesRow
  \/ DfSpacesReturn
  \/ DfTyposRow
  \/ DfTyposReturn
  \/ DfFootRow
  \/ DfFootReturn

Spec == Init /\ [][Next]_vars

\* ================================================================== claims
UnexpectedNote == "Unexpected closing bracket/quote"

UnclosedNote == "Unclosed opening bracket/quote"

\* the run is past the bracket scan of check_typos and its closing loop
AfterBrackets ==
  pc \notin {"check_extra_spaces", "typos_ascii_punct", "typos_repeated",
             "typos_brackets"}

\* the issues of typos with a given note, in the order of typos
WithNote(note) == SelectSeq(typos, LAMBDA t : t[4] = note)

BracketPairs ==
  {<<65288, 65289>>, <<12298, 12299>>, <<12300, 12301>>, <<12302, 12303>>,
   <<12304, 12305>>, <<40, 41>>, <<91, 93>>, <<123, 125>>}

Openers == {pr[1] : pr \in BracketPairs}

Closers == {pr[2] : pr \in BracketPairs}

\* the bracket characters of a text, in order
BracketsOf(t) == SelectSeq(t, LAMBDA c : c \in Openers \cup Closers)

\* a bracket string is properly nested when deleting adjacent opener-closer
\* pairs, again and again, leaves nothing
RECURSIVE Reduces(_)
Reduces(b) ==
  IF b = <<>> THEN TRUE
  ELSE IF \E k \in 1..(Len(b) - 1) : <<b[k], b[k + 1]>> \in BracketPairs
       THEN LET k == CHOOSE n \in 1..(Len(b) - 1) : <<b[n], b[n + 1]>> \in BracketPairs
            IN Reduces(SubSeq(b, 1, k - 1) \o SubSeq(b, k + 2, Len(b)))
       ELSE FALSE

ProperlyNested(t) == Reduces(BracketsOf(t))

BracketIssues == SelectSeq(typos, LAMBDA t : t[4] \in {UnexpectedNote, UnclosedNote})

\* one step of the scan, at character i
C2_Step ==
  (pc = "typos_brackets" /\ i < Len(target_text)) =>
    LET ch == At(target_text, i)
        mismatch == IF stack = <<>> THEN TRUE
                    ELSE <<stack[Len(stack)][1], ch>> \notin BracketPairs
    IN /\ ch \in Openers =>
            stack' = Append(stack, <<ch, i>>) /\ typos' = typos
       /\ (ch \in Closers /\ mismatch) =>
            stack' = stack /\ typos' = Append(typos, <<i, 1, <<ch>>, UnexpectedNote>>)
       /\ (ch \in Closers /\ ~mismatch) =>
            stack' = SubSeq(stack, 1, Len(stack) - 1) /\ typos' = typos
       /\ ch \notin Openers \cup Closers => stack' = stack /\ typos' = typos

\* the result of the whole scan, in the issues check_typos returned, on a
\* properly nested text and on a text whose only bracket is one closer
C2_Result ==
  pc = "done" =>
    /\ ProperlyNested(target_text) => BracketIssues = <<>>
    /\ (Len(BracketsOf(target_text)) = 1 /\ BracketsOf(target_text)[1] \in Closers) =>
         /\ Len(BracketIssues) = 1
         /\ BracketIssues[1][4] = UnexpectedNote
         /\ BracketIssues[1][2] = 1
         /\ At(target_text, BracketIssues[1][1]) = BracketsOf(target_text)[1]

\* C2: the bracket scan is a strict LIFO matcher: every step pushes an opener,
\* reports a closer at its own offset, with length 1 and the stack unchanged,
\* exactly when the stack is empty or its top is not the opener of that
\* closer, and pops otherwise; so a properly nested text gives no bracket
\* issue and a lone closer gives one unexpected-close issue at its offset.
C2_StrictLIFO == [][C2_Step /\ (pc' = "done" => C2_Result')]_vars

\* a text of nested pairs of two kinds was scanned to the end
C2_Witness ==
  /\ pc = "done"
  /\ Len(target_text) >= 4
  /\ ProperlyNested(target_text)
  /\ target_text[1] \in Openers
  /\ target_text[2] \in Openers
  /\ target_text[1] # target_text[2]

\* ---------------------------------------------------------------- footnotes
\* the three bracket notations: ( ), U+FF08 U+FF09, [ ]
NotationPairs == {<<40, 41>>, <<65288, 65289>>, <<91, 93>>}

\* the superscript digits, 0 to 9
SuperscriptDigits == <<8304, 185, 178, 179, 8308, 8309, 8310, 8311, 8312, 8313>>

IsSuperscript(c) == \E d \in 1..10 : SuperscriptDigits[d] = c

\* the ASCII digit of a superscript digit
AsciiOf(c) == 47 + (CHOOSE d \in 1..10 : SuperscriptDigits[d] = c)

\* a digit string without its leading zeros (one digit is always kept)
RECURSIVE DropLeadingZeros(_)
DropLeadingZeros(ds) ==
  IF Len(ds) > 1 /\ Head(ds) = 48 THEN DropLeadingZeros(Tail(ds)) ELSE ds

\* the number an ASCII digit string denotes
RECURSIVE NumberOf(_)
NumberOf(ds) ==
  IF ds = <<>> THEN 0
  ELSE 10 * NumberOf(SubSeq(ds, 1, Len(ds) - 1)) + (ds[Len(ds)] - 48)

\* the bracket-notation tokens of a text: an opening bracket, 1 to 3 ASCII
\* digits, the closing bracket of the same notation; keyed by the digits
BracketTokens(t) ==
  {[start |-> p, len |-> n + 2, key |-> Slice(t, p + 1, p + 1 + n), pass |-> 1] :
     <<p, n>> \in {pn \in (0..(Len(t) - 1)) \X (1..3) :
                    /\ pn[1] + pn[2] + 1 < Len(t)
                    /\ <<At(t, pn[1]), At(t, pn[1] + pn[2] + 1)>> \in NotationPairs
                    /\ \A q \in (pn[1] + 1)..(pn[1] + pn[2]) : At(t, q) \in 48..57}}

\* the superscript tokens: the maximal runs of superscript digits, keyed by
\* their digits without leading zeros
SuperscriptTokens(t) ==
  {[start |-> ab[1], len |-> ab[2] - ab[1],
    key |-> DropLeadingZeros([k \in 1..(ab[2] - ab[1]) |-> AsciiOf(At(t, ab[1] + k - 1))]),
    pass |-> 2] :
     ab \in {x \in (0..(Len(t) - 1)) \X (1..Len(t)) :
               /\ x[1] < x[2]
               /\ \A q \in x[1]..(x[2] - 1) : IsSuperscript(At(t, q))
               /\ (x[1] = 0 \/ ~IsSuperscript(At(t, x[1] - 1)))
               /\ (x[2] = Len(t) \/ ~IsSuperscript(At(t, x[2])))}}

Tokens == BracketTokens(target_text) \cup SuperscriptTokens(target_text)

\* how many times a token is reported as a duplicate
Reported(a) ==
  Cardinality({k \in 1..Len(duplicates) : duplicates[k] = <<a.start, a.len, a.key>>})

\* b comes before a in the document
DocBefore(b, a) == b.start < a.start

\* b is scanned before a: the bracket pass runs to the end of the text before
\* the superscript pass starts
ScanBefore(b, a) == b.pass < a.pass \/ (b.pass = a.pass /\ b.start < a.start)

\* ---------------------------------------------------------------------- C3
\* C3 as stated: for every key, the occurrence with the smallest start offset
\* is never reported and every other occurrence is reported exactly once.
C3_FirstInDocument ==
  pc = "done" =>
    \A a \in Tokens :
      Reported(a) =
        IF \E b \in Tokens : b.key = a.key /\ DocBefore(b, a) THEN 1 ELSE 0

\* C3 amended: for every key, the occurrence scanned first (all bracket
\* tokens left to right, then all superscript runs left to right) is never
\* reported and every other occurrence is reported exactly once.
C3_FirstInScanOrder ==
  pc = "done" =>
    \A a \in Tokens :
      Reported(a) =
        IF \E b \in Tokens : b.key = a.key /\ ScanBefore(b, a) THEN 1 ELSE 0

\* a superscript run is reported although the bracketed number it repeats
\* comes after it in the document
C3_Witness ==
  /\ pc = "done"
  /\ \E k \in 1..Len(duplicates) :
       /\ IsSuperscript(At(target_text, duplicates[k][1]))
       /\ duplicates[k][1] < found[duplicates[k][3]]

\* --------------------------------------------------------------------- C10
\* C10: every superscript run is keyed by the decimal string of its value, so
\* of any two footnote tokens that denote the same number the one scanned
\* later is reported as a duplicate, keyed by that decimal string.
C10_SameNumberSameKey ==
  pc = "done" =>
    \A a \in Tokens, b \in Tokens :
      (NumberOf(a.key) = NumberOf(b.key) /\ ScanBefore(a, b)) =>
        \E k \in 1..Len(duplicates) :
          /\ duplicates[k][1] = b.start
          /\ duplicates[k][2] = b.len
          /\ duplicates[k][3] = DropLeadingZeros(b.key)

\* ---------------------------------------------------------------------- C4
\* a sequence of issues in non-decreasing order of start offset
Sorted(issues) ==
  \A k \in 1..(Len(issues) - 1) : issues[k][1] <= issues[k + 1][1]

AsciiPunctNote == "ASCII punctuation between CJK characters"

RepeatedNote == "Repeated punctuation"

ZeroWidthNote == "Zero-width/BOM character"

\* C4 as stated: the whole output of check_extra_spaces, the whole output of
\* check_duplicate_footnotes and each of the four sub-scans of check_typos are
\* in non-decreasing order of start offset.
C4_SortedPerDetector ==
  pc = "done" =>
    /\ Sorted(spaces)
    /\ Sorted(duplicates)
    /\ Sorted(WithNote(AsciiPunctNote))
    /\ Sorted(WithNote(RepeatedNote))
    /\ Sorted(BracketIssues)
    /\ Sorted(WithNote(ZeroWidthNote))

\* C4 amended: the issues of each single pass over the text are in
\* non-decreasing order of start offset: the ordinary-space matches, the
\* full-width-space matches, the bracket-notation duplicates, the superscript
\* duplicates, the mixed-script issues, the repeated-punctuation issues, the
\* unexpected-close issues, the unclosed-open issues, and the occurrences of
\* each one invisible character.
C4_SortedPerPass ==
  pc = "done" =>
    /\ Sorted(SelectSeq(spaces, LAMBDA f : f[3][2] \in {32, 9}))
    /\ Sorted(SelectSeq(spaces, LAMBDA f : f[3][2] = 12288))
    /\ Sorted(SelectSeq(duplicates, LAMBDA d : ~IsSuperscript(At(target_text, d[1]))))
    /\ Sorted(SelectSeq(duplicates, LAMBDA d : IsSuperscript(At(target_text, d[1]))))
    /\ Sorted(WithNote(AsciiPunctNote))
    /\ Sorted(WithNote(RepeatedNote))
    /\ Sorted(WithNote(UnexpectedNote))
    /\ Sorted(WithNote(UnclosedNote))
    /\ \A c \in {8203, 8204, 8205, 65279} :
         Sorted(SelectSeq(typos, LAMBDA t : t[4] = ZeroWidthNote /\ t[3] = <<c>>))

\* one pass reports two issues, in order, and a later pass reports an issue
\* that lies before both: two unclosed openers after an unexpected closer that
\* follows them
C4_Witness ==
  /\ pc = "done"
  /\ Len(WithNote(UnclosedNote)) = 2
  /\ Len(WithNote(UnexpectedNote)) = 1
  /\ WithNote(UnclosedNote)[1][1] < WithNote(UnclosedNote)[2][1]
  /\ WithNote(UnclosedNote)[2][1] < WithNote(UnexpectedNote)[1][1]

\* ---------------------------------------------------------------------- C5
\* the places <<p, e>> where an ideograph at p is followed by one or more
\* whitespace characters of one kind and then by an ideograph at e
GapPlaces(t) ==
  {pe \in (0..(Len(t) - 1)) \X (0..(Len(t) - 1)) :
     /\ pe[1] + 1 < pe[2]
     /\ IsCJK(At(t, pe[1]))
     /\ IsCJK(At(t, pe[2]))
     /\ \/ \A q \in (pe[1] + 1)..(pe[2] - 1) : At(t, q) \in {32, 9}
        \/ \A q \in (pe[1] + 1)..(pe[2] - 1) : At(t, q) = 12288}

\* C5: every such place is reported by check_extra_spaces, as an issue that
\* spans both ideographs and the run between them, also when two places share
\* an ideograph.
C5_EveryGapReported ==
  pc = "done" =>
    \A pe \in GapPlaces(target_text) :
      \E k \in 1..Len(spaces) :
        spaces[k] = <<pe[1], pe[2] - pe[1] + 1, Slice(target_text, pe[1], pe[2] + 1)>>

\* ---------------------------------------------------------------------- C6
\* the offsets of an ASCII punctuation character with an ideograph on each side
PunctPlaces(t) ==
  {q \in 1..(Len(t) - 2) :
     /\ At(t, q) \in {44, 46, 59, 58, 33, 63, 41, 40, 91, 93, 123, 125, 34, 39}
     /\ IsCJK(At(t, q - 1))
     /\ IsCJK(At(t, q + 1))}

\* C6: every such occurrence is flagged by the mixed-script scan, at the
\* offset of the punctuation character and with length 1, also when two
\* occurrences share an ideograph.
C6_EveryPunctFlagged ==
  pc = "done" =>
    \A q \in PunctPlaces(target_text) :
      \E k \in 1..Len(typos) :
        typos[k] = <<q, 1, <<At(target_text, q)>>, AsciiPunctNote>>

\* ---------------------------------------------------------------------- C7
\* a str without the whitespace at its two ends
Trim(s) ==
  LET inked == {k \in 1..Len(s) : s[k] \notin Whitespace}
  IN IF inked = {} THEN <<>>
     ELSE SubSeq(s, CHOOSE a \in inked : \A k \in inked : a <= k,
                    CHOOSE b \in inked : \A k \in inked : b >= k)

\* the fields of a "|"-separated list
Fields(s) ==
  {Slice(s, ab[1], ab[2]) :
     ab \in {x \in (0..Len(s)) \X (0..Len(s)) :
               /\ x[1] <= x[2]
               /\ (x[1] = 0 \/ At(s, x[1] - 1) = 124)
               /\ (x[2] = Len(s) \/ At(s, x[2]) = 124)
               /\ \A q \in x[1]..(x[2] - 1) : At(s, q) # 124}}

\* the candidate set of an entry: its preferred term and its variant terms
Candidates(row) ==
  ({Trim(row.zh_pref)} \cup {Trim(f) : f \in Fields(row.zh_variants)}) \ {<<>>}

\* the offsets at which a term occurs in a text
Occurrences(t, term) ==
  {p \in 0..(Len(t) - Len(term)) : Slice(t, p, p + Len(term)) = term}

\* the occurrence count: the most occurrences no two of which overlap
OccurrenceCount(t, term) ==
  LET apart == {S \in SUBSET Occurrences(t, term) :
                  \A p \in S, q \in S : p < q => p + Len(term) <= q}
  IN CHOOSE n \in 0..Len(t) :
       /\ \E S \in apart : Cardinality(S) = n
       /\ \A S \in apart : Cardinality(S) <= n

Present(row) ==
  {c \in Candidates(row) : OccurrenceCount(target_text, c) > 0}

\* the entries with two or more forms present, in glossary order
RECURSIVE Inconsistent(_)
Inconsistent(k) ==
  IF k > Len(glossary_df) THEN <<>>
  ELSE (IF Cardinality(Present(glossary_df[k])) >= 2 THEN <<k>> ELSE <<>>)
       \o Inconsistent(k + 1)

RECURSIVE Decimal(_)
Decimal(n) == IF n < 10 THEN <<48 + n>> ELSE Decimal(n \div 10) \o <<48 + (n % 10)>>

\* "form (count)" for each form of a list, separated by ", "
RECURSIVE Listing(_)
Listing(forms) ==
  IF forms = <<>> THEN <<>>
  ELSE (IF Len(forms) > 1 THEN Listing(SubSeq(forms, 1, Len(forms) - 1)) \o <<44, 32>>
        ELSE <<>>)
       \o forms[Len(forms)] \o <<32, 40>>
       \o Decimal(OccurrenceCount(target_text, forms[Len(forms)])) \o <<41>>

\* the orders in which a set of forms can be listed
Orders(S) ==
  {f \in [1..Cardinality(S) -> S] : \A a, b \in 1..Cardinality(S) : a # b => f[a] # f[b]}

AfterTerminology == pc \in {"results", "df_spaces", "df_typos", "df_foot", "done"}

\* C7: check_terminology_inconsistency gives, in glossary order, one finding
\* for each entry of which two or more distinct candidate terms occur in the
\* target text, and no other finding; the finding names the preferred term and
\* lists each form that occurs, with its count, and no form that does not.
C7_OneFindingPerInconsistentEntry ==
  AfterTerminology =>
    /\ Len(inconsistencies) = Len(Inconsistent(1))
    /\ \A k \in 1..Len(inconsistencies) :
         /\ k <= Len(Inconsistent(1))
         /\ inconsistencies[k].preferred = Trim(glossary_df[Inconsistent(1)[k]].zh_pref)
         /\ \E f \in Orders(Present(glossary_df[Inconsistent(1)[k]])) :
              inconsistencies[k].found = Listing(f)

\* two entries with different preferred terms each gave a finding
C7_Witness ==
  /\ pc = "done"
  /\ Len(inconsistencies) = 2
  /\ inconsistencies[1].preferred # inconsistencies[2].preferred

\* ---------------------------------------------------------------------- C8
\* C8: every issue of the three detectors has start >= 0, length >= 0 and
\* start + length <= len(text); only an unclosed-bracket issue located at
\* len(text) may end past the text.
C8_IssuesInsideText ==
  /\ \A k \in 1..Len(spaces) :
       /\ spaces[k][1] >= 0
       /\ spaces[k][2] >= 0
       /\ spaces[k][1] + spaces[k][2] <= Len(target_text)
  /\ \A k \in 1..Len(duplicates) :
       /\ duplicates[k][1] >= 0
       /\ duplicates[k][2] >= 0
       /\ duplicates[k][1] + duplicates[k][2] <= Len(target_text)
  /\ \A k \in 1..Len(typos) :
       /\ typos[k][1] >= 0
       /\ typos[k][2] >= 0
       /\ \/ typos[k][1] + typos[k][2] <= Len(target_text)
          \/ typos[k][4] = UnclosedNote /\ typos[k][1] = Len(target_text)

\* an extra-space issue that does not start the text ends exactly at its end
C8_Witness ==
  /\ pc = "done"
  /\ \E k \in 1..Len(spaces) :
       spaces[k][1] > 0 /\ spaces[k][1] + spaces[k][2] = Len(target_text)

\* ---------------------------------------------------------------------- C9
\* the rows of a detail table are the issues of the detector, one for one and
\* in the same order
RowsOf(df, items) ==
  /\ Len(df) = Len(items)
  /\ \A k \in 1..Len(df) :
       /\ k <= Len(items)
       /\ df[k].start = items[k][1]
       /\ df[k].end = items[k][1] + items[k][2]

\* C9: each detail table has exactly one row for each issue its detector
\* returned, in the order of the detector, and the summary count of a category
\* is the number of rows of its detail table.
C9_OneRowPerIssue ==
  pc = "done" =>
    /\ RowsOf(df_spaces, spaces)
    /\ RowsOf(df_typos, typos)
    /\ RowsOf(df_foot, duplicates)
    /\ results.ExtraSpaces = Len(df_spaces)
    /\ results.TypographicalErrors = Len(df_typos)
    /\ results.DuplicatedFootnotes = Len(df_foot)

\* a detail table of two rows for two issues at different offsets
C9_Witness ==
  /\ pc = "done"
  /\ Len(df_spaces) = 2
  /\ spaces[1][1] # spaces[2][1]

====
